---- MODULE Spec2Model ----
(***************************************************************************)
(* Model of src/app.py: the Flask view list_bucket_content(path), which    *)
(* normalises the path, lists the objects of one fixed S3 bucket under     *)
(* that prefix and turns the outcome into a (JSON body, status) pair.      *)
(*                                                                         *)
(* Strings that the code slices or splits (paths, object keys, listing     *)
(* entries) are sequences of one-character strings.  Messages whose text   *)
(* is never inspected by the code are TLA+ strings.                        *)
(***************************************************************************)
EXTENDS Integers, Sequences, FiniteSets, TLC

VARIABLES pc, path, outcome, calls, responses

vars == <<pc, path, outcome, calls, responses>>

-----------------------------------------------------------------------------
(* Bounds of the model *)

MaxPathLen == 4   \* longest raw path of a request
MaxTailLen == 2   \* longest part of an object key after the queried prefix
MaxKeys    == 2   \* most object keys in one store response

Sep == "/"

Chars == {Sep, "a"}

RECURSIVE StringsUpTo(_, _)
StringsUpTo(chars, n) ==
    IF n = 0 THEN {<<>>}
    ELSE LET shorter == StringsUpTo(chars, n - 1)
         IN  shorter \cup {Append(s, c) : s \in shorter, c \in chars}

RECURSIVE SeqsUpTo(_, _)
SeqsUpTo(S, n) ==
    IF n = 0 THEN {<<>>}
    ELSE LET shorter == SeqsUpTo(S, n - 1)
         IN  shorter \cup {Append(s, x) : s \in shorter, x \in S}

(* the requests and bucket contents of the documented examples *)
SlashABSlash == <<"/", "a", "/", "b", "/">>
AB           == <<"a", "/", "b">>
Docs         == <<"d", "o", "c", "s">>
DocsReadme   == <<"d", "o", "c", "s", "/", "r", "e", "a", "d", "m", "e", ".", "m", "d">>
ABTxt        == <<"a", "/", "b", ".", "t", "x", "t">>
ACTxt        == <<"a", "/", "c", ".", "t", "x", "t">>
DTxt         == <<"d", ".", "t", "x", "t">>

ExamplePaths    == {SlashABSlash, Docs}
ExampleListings == {<<ABTxt, ACTxt, DTxt>>, <<DocsReadme>>}

RawPaths == StringsUpTo(Chars, MaxPathLen) \cup ExamplePaths
Tails    == StringsUpTo(Chars, MaxTailLen)

BeginsWith(s, p) == Len(s) >= Len(p) /\ SubSeq(s, 1, Len(p)) = p

-----------------------------------------------------------------------------
(* Program constants *)

BUCKET_NAME == "python-app-terraform"

NoPath == <<>>

-----------------------------------------------------------------------------
(* str.strip('/') as CPython computes it: advance a left index over the     *)
(* characters to strip, retreat a right index, return the slice between.   *)

RECURSIVE LStripIndex(_, _)
LStripIndex(s, i) ==
    IF i <= Len(s) /\ s[i] = Sep THEN LStripIndex(s, i + 1) ELSE i

RECURSIVE RStripIndex(_, _, _)
RStripIndex(s, i, j) ==
    IF j >= i /\ s[j] = Sep THEN RStripIndex(s, i, j - 1) ELSE j

StripLeftOnly(s) == SubSeq(s, LStripIndex(s, 1), Len(s))

Strip(s) ==
    LET i == LStripIndex(s, 1)
        j == RStripIndex(s, i, Len(s))
    IN  SubSeq(s, i, j)

(* s[n:] *)
SliceFrom(s, n) == SubSeq(s, n + 1, Len(s))

(* s.split('/')[0]: everything before the first separator, or all of s *)
RECURSIVE SplitFirst(_)
SplitFirst(s) ==
    IF s = <<>> \/ Head(s) = Sep THEN <<>>
    ELSE <<Head(s)>> \o SplitFirst(Tail(s))

(* obj['Key'][len(path):].split('/')[0] *)
Entry(key, p) == SplitFirst(SliceFrom(key, Len(p)))

RECURSIVE Dedup(_)
Dedup(s) ==
    IF s = <<>> THEN <<>>
    ELSE LET front == Dedup(SubSeq(s, 1, Len(s) - 1))
             last  == s[Len(s)]
         IN  IF \E i \in 1..Len(front) : front[i] = last
             THEN front ELSE Append(front, last)

(* the for loop of lines 32-33, appending one entry per object *)
RECURSIVE AppendEntries(_, _, _)
AppendEntries(content, keys, p) ==
    IF keys = <<>> THEN content
    ELSE AppendEntries(Append(content, Entry(Head(keys), p)), Tail(keys), p)

ExtractContentDedup(resp, p) ==
    IF resp.hasContents THEN Dedup(AppendEntries(<<>>, resp.Contents, p)) ELSE <<>>

(* lines 30-33 *)
ExtractContent(resp, p) ==
    IF resp.hasContents THEN AppendEntries(<<>>, resp.Contents, p) ELSE <<>>

-----------------------------------------------------------------------------
(* What s3.list_objects_v2 can hand back: a response dictionary, or an      *)
(* exception.  Object keys begin with the queried prefix.                  *)

NoException == [cls |-> "", code |-> "", str |-> ""]

ErrorCodes == {"NoSuchBucket", "AccessDenied", "InvalidBucketName", "SlowDown"}

ClientErrors ==
    {[cls |-> "ClientError", code |-> c, str |-> "An error occurred (" \o c \o ")"] :
        c \in ErrorCodes}

OtherErrors ==
    {[cls |-> "EndpointConnectionError", code |-> "", str |-> "Could not connect to the endpoint URL"],
     [cls |-> "KeyError", code |-> "", str |-> "'Key'"]}

Exceptions ==
    {[cls |-> "NoCredentialsError", code |-> "", str |-> "Unable to locate credentials"],
     [cls |-> "PartialCredentialsError", code |-> "", str |-> "Partial credentials found"]}
    \cup ClientErrors \cup OtherErrors

(* the classes each raised class is an instance of *)
Ancestors(cls) ==
    CASE cls = "NoCredentialsError"      -> {"NoCredentialsError", "BotoCoreError", "Exception"}
      [] cls = "PartialCredentialsError" -> {"PartialCredentialsError", "BotoCoreError", "Exception"}
      [] cls = "EndpointConnectionError" -> {"EndpointConnectionError", "BotoCoreError", "Exception"}
      [] cls = "ClientError"             -> {"ClientError", "Exception"}
      [] cls = "KeyError"                -> {"KeyError", "LookupError", "Exception"}
      [] OTHER                           -> {cls}

NoOutcome ==
    [kind |-> "none", hasError |-> FALSE, hasContents |-> FALSE, Contents |-> <<>>,
     exc |-> NoException]

Returned(hasError, hasContents, keys) ==
    [kind |-> "response", hasError |-> hasError, hasContents |-> hasContents,
     Contents |-> keys, exc |-> NoException]

Raised(e) ==
    [kind |-> "raised", hasError |-> FALSE, hasContents |-> FALSE, Contents |-> <<>>,
     exc |-> e]

KeysUnder(p) == {p \o t : t \in Tails}

StoreOutcomes(p) ==
    {Returned(TRUE, FALSE, <<>>), Returned(FALSE, FALSE, <<>>)}
    \cup {Returned(FALSE, TRUE, ks) : ks \in SeqsUpTo(KeysUnder(p), MaxKeys)}
    \cup {Returned(FALSE, TRUE, ks) :
            ks \in {l \in ExampleListings : \A i \in 1..Len(l) : BeginsWith(l[i], p)}}
    \cup {Raised(e) : e \in Exceptions}

-----------------------------------------------------------------------------
(* jsonify(...) bodies and the (body, status) pairs the view returns *)

ContentBody(content) ==
    [key |-> "content", content |-> content, message |-> "", args |-> <<>>]

ErrorBody(message, args) ==
    [key |-> "error", content |-> <<>>, message |-> message, args |-> args]

Response(body, status) == [body |-> body, status |-> status]

(* lines 27-39: the body of the try block once the store has answered *)
TryBodyEmptyIsOk(resp, p) ==
    IF resp.hasError
    THEN Response(ErrorBody("Bucket does not exist or there was an issue accessing it", <<>>), 404)
    ELSE Response(ContentBody(ExtractContent(resp, p)), 200)

TryBodyRawKeys(resp, p) ==
    IF resp.hasError
    THEN Response(ErrorBody("Bucket does not exist or there was an issue accessing it", <<>>), 404)
    ELSE LET content == ExtractContent(resp, p)
         IN  IF content = <<>>
             THEN Response(ErrorBody("No content found for path '{path}'", p), 404)
             ELSE Response(ContentBody(resp.Contents), 200)

TryBody(resp, p) ==
    IF resp.hasError
    THEN Response(ErrorBody("Bucket does not exist or there was an issue accessing it", <<>>), 404)
    ELSE LET content == ExtractContent(resp, p)
         IN  IF content = <<>>
             THEN Response(ErrorBody("No content found for path '{path}'", p), 404)
             ELSE Response(ContentBody(content), 200)

(* the except clauses in source order; 0 when none matches *)
ExceptClauses == <<"NoCredentialsError", "PartialCredentialsError", "ClientError", "Exception">>

MatchClauseNoCatchAll(e) ==
    LET hits == {i \in 1..3 : ExceptClauses[i] \in Ancestors(e.cls)}
    IN  IF hits = {} THEN 0 ELSE CHOOSE i \in hits : \A j \in hits : i <= j

MatchClause(e) ==
    LET hits == {i \in 1..Len(ExceptClauses) : ExceptClauses[i] \in Ancestors(e.cls)}
    IN  IF hits = {} THEN 0 ELSE CHOOSE i \in hits : \A j \in hits : i <= j

ClientErrorStatusSwapped(code) ==
    IF code = "NoSuchBucket" THEN 403
    ELSE IF code = "AccessDenied" THEN 404
    ELSE 400

(* lines 48-53: the status chosen from the error code *)
ClientErrorStatus(code) ==
    IF code = "NoSuchBucket" THEN 404
    ELSE IF code = "AccessDenied" THEN 403
    ELSE 400

(* lines 47-53 *)
ClientErrorResponse(e) ==
    LET error_code == e.code
    IN  IF error_code = "NoSuchBucket"
        THEN Response(ErrorBody("Bucket '{BUCKET_NAME}' does not exist", <<BUCKET_NAME>>),
                      ClientErrorStatus(error_code))
        ELSE IF error_code = "AccessDenied"
        THEN Response(ErrorBody("Access denied to the S3 bucket", <<>>),
                      ClientErrorStatus(error_code))
        ELSE Response(ErrorBody("Client error: {str(e)}", <<e.str>>),
                      ClientErrorStatus(error_code))

CredentialsResponseSameMessage(clause) ==
    Response(ErrorBody("AWS credentials are missing", <<>>), 403)

(* lines 41-44 *)
CredentialsResponse(clause) ==
    IF clause = 1
    THEN Response(ErrorBody("AWS credentials are missing", <<>>), 403)
    ELSE Response(ErrorBody("Incomplete AWS credentials", <<>>), 403)

(* lines 54-55 *)
UnexpectedResponse(e) ==
    Response(ErrorBody("An unexpected error occurred: {str(e)}", <<e.str>>), 500)

(* lines 41-55: the response of the except clause that catches e *)
ExceptResponse(e) ==
    LET clause == MatchClause(e)
    IN  IF clause \in {1, 2} THEN CredentialsResponse(clause)
        ELSE IF clause = 3 THEN ClientErrorResponse(e)
        ELSE UnexpectedResponse(e)

ListObjectsV2CallTwice(log, p) ==
    log \o <<[Bucket |-> BUCKET_NAME, Prefix |-> p], [Bucket |-> BUCKET_NAME, Prefix |-> p]>>

(* line 24: the one request sent to the store *)
ListObjectsV2Call(log, p) == Append(log, [Bucket |-> BUCKET_NAME, Prefix |-> p])

-----------------------------------------------------------------------------
(* One request at a time through list_bucket_content; pc is the position   *)
(* in the view function.                                                   *)

Init ==
    /\ pc = "idle"
    /\ path = NoPath
    /\ outcome = NoOutcome
    /\ calls = <<>>
    /\ responses = <<>>

(* lines 17-19: the route binds the path parameter and enters the view *)
Receive(raw) ==
    /\ pc \in {"idle", "done", "propagated"}
    /\ pc' = "entered"
    /\ path' = raw
    /\ outcome' = NoOutcome
    /\ calls' = <<>>
    /\ responses' = <<>>

(* line 20: path = path.strip('/') *)
Normalize ==
    /\ pc = "entered"
    /\ path' = Strip(path)
    /\ pc' = "try"
    /\ UNCHANGED <<outcome, calls, responses>>

(* line 24: response = s3.list_objects_v2(Bucket=BUCKET_NAME, Prefix=path) *)
ListObjects ==
    /\ pc = "try"
    /\ calls' = ListObjectsV2Call(calls, path)
    /\ \E o \in StoreOutcomes(path) : outcome' = o
    /\ pc' = "called"
    /\ UNCHANGED <<path, responses>>

(* lines 27-39: the call returned; the try block runs to one of its returns *)
Return ==
    /\ pc = "called"
    /\ outcome.kind = "response"
    /\ responses' = Append(responses, TryBody(outcome, path))
    /\ pc' = "done"
    /\ UNCHANGED <<path, outcome, calls>>

(* lines 41-55: the call raised; the first matching except clause returns, *)
(* and an exception no clause matches leaves the view                      *)
Except ==
    /\ pc = "called"
    /\ outcome.kind = "raised"
    /\ IF MatchClause(outcome.exc) = 0
       THEN /\ pc' = "propagated"
            /\ UNCHANGED responses
       ELSE /\ pc' = "done"
            /\ responses' = Append(responses, ExceptResponse(outcome.exc))
    /\ UNCHANGED <<path, outcome, calls>>

Next ==
    \/ \E raw \in RawPaths : Receive(raw)
    \/ Normalize
    \/ ListObjects
    \/ Return
    \/ Except

Spec == Init /\ [][Next]_vars

-----------------------------------------------------------------------------
(* Vocabulary of the properties *)

Responded    == pc = "done" /\ Len(responses) = 1
Status       == responses[1].status
Body         == responses[1].body
Listed       == outcome.kind = "response" /\ ~outcome.hasError
Keys         == IF outcome.hasContents THEN outcome.Contents ELSE <<>>
Failed       == outcome.kind = "raised"
IsSeps(s)    == \A i \in 1..Len(s) : s[i] = Sep

-----------------------------------------------------------------------------
(* C1: for a non-empty normalised prefix p and a returned key p + "/" +     *)
(* rest, the listing entry in the response is the first segment of rest.   *)
C1_EntryIsFirstLevelChild ==
    (Responded /\ Listed /\ path # <<>>) =>
        \A i \in 1..Len(Keys) :
            BeginsWith(Keys[i], Append(path, Sep)) =>
                /\ Status = 200
                /\ Len(Body.content) >= i
                /\ Body.content[i] = SplitFirst(SliceFrom(Keys[i], Len(path) + 1))

(* C2 as stated: a successful listing yields exactly one entry per       *)
(* returned key, in the order of the keys, duplicates kept; keys           *)
(* ["a/b.txt", "a/c.txt", "d.txt"] with prefix "" give ["a", "a", "d"].    *)
C2_Original ==
    (Responded /\ Listed /\ Keys # <<>>) =>
        /\ Body.key = "content"
        /\ Len(Body.content) = Len(Keys)
        /\ \A i \in 1..Len(Keys) : Body.content[i] = Entry(Keys[i], path)
        /\ (path = <<>> /\ Keys = <<ABTxt, ACTxt, DTxt>>) =>
                Body.content = << <<"a">>, <<"a">>, <<"d">> >>

(* C2 amended: a successful listing yields exactly one entry per returned  *)
(* key, in the order of the keys, duplicates kept: entry i is derived from *)
(* key i; keys ["a/b.txt", "a/c.txt", "d.txt"] with prefix "" give         *)
(* ["a", "a", "d.txt"].                                                    *)
C2_OneEntryPerKeyInOrder ==
    (Responded /\ Listed /\ Keys # <<>>) =>
        /\ Body.key = "content"
        /\ Len(Body.content) = Len(Keys)
        /\ \A i \in 1..Len(Keys) : Body.content[i] = Entry(Keys[i], path)
        /\ (path = <<>> /\ Keys = <<ABTxt, ACTxt, DTxt>>) =>
                Body.content = << <<"a">>, <<"a">>, DTxt >>

C2_Witness ==
    /\ Responded /\ Listed
    /\ path = <<>>
    /\ Keys = <<ABTxt, ACTxt, DTxt>>
    /\ Status = 200

C2_WitnessDuplicates ==
    /\ Responded /\ Listed /\ Len(Keys) = 2
    /\ Keys[1] # Keys[2]
    /\ Body.content = << <<"a">>, <<"a">> >>

(* C3: status 200 is returned exactly when the listing succeeded and the   *)
(* derived entries are not empty, and the body is then {"content": seq}    *)
(* with seq the derived entries.                                           *)
C3_OkIffNonEmptyListing ==
    Responded =>
        /\ Status = 200 <=> (Listed /\ Keys # <<>>)
        /\ Status = 200 =>
            /\ Body.key = "content"
            /\ Body.message = "" /\ Body.args = <<>>
            /\ Len(Body.content) = Len(Keys)
            /\ \A i \in 1..Len(Keys) : Body.content[i] = Entry(Keys[i], path)

C3_Witness ==
    /\ Responded /\ Listed /\ Status = 200
    /\ path = <<"a">>
    /\ Keys = << <<"a", "a", "/">>, <<"a", "a">> >>
    /\ Body.content = << <<"a">>, <<"a">> >>

(* C4: a listing that succeeds with no keys is answered 404 with an error  *)
(* body naming the (normalised) path that was queried, never 200.          *)
C4_EmptyListingIsNotFound ==
    (Responded /\ Listed /\ Keys = <<>>) =>
        /\ Status = 404
        /\ Body.key = "error"
        /\ Body.content = <<>>
        /\ Body.message = "No content found for path '{path}'"
        /\ Body.args = path
        /\ Body.args = calls[1].Prefix

C4_Witness ==
    /\ Responded /\ Listed /\ Keys = <<>>
    /\ path = <<>>
    /\ Status = 404

C4_WitnessSubPath ==
    /\ Responded /\ Listed /\ Keys = <<>>
    /\ path = <<"a", "/", "a">>
    /\ Body.args = <<"a", "/", "a">>

(* C5: a client error is answered by its code alone: NoSuchBucket 404,      *)
(* AccessDenied 403, any other code 400, always with an error body.        *)
C5_ClientErrorStatusByCode ==
    (Responded /\ Failed /\ outcome.exc.cls = "ClientError") =>
        /\ Body.key = "error"
        /\ outcome.exc.code = "NoSuchBucket" => Status = 404
        /\ outcome.exc.code = "AccessDenied" => Status = 403
        /\ outcome.exc.code \notin {"NoSuchBucket", "AccessDenied"} => Status = 400

C5_Witness ==
    /\ Responded /\ Failed /\ outcome.exc.cls = "ClientError"
    /\ outcome.exc.code = "NoSuchBucket"
    /\ path # <<>>
    /\ Status = 404

C5_WitnessOtherCode ==
    /\ Responded /\ Failed /\ outcome.exc.cls = "ClientError"
    /\ outcome.exc.code = "SlowDown"
    /\ Status = 400

CredentialErrors == {e \in Exceptions : e.cls \in {"NoCredentialsError", "PartialCredentialsError"}}

(* C6: missing and incomplete credentials are both answered 403, for every *)
(* path, with error messages that differ from each other and that are      *)
(* neither the client-error nor the unexpected-error message.              *)
C6_CredentialErrorsForbidden ==
    (Responded /\ Failed /\ outcome.exc \in CredentialErrors) =>
        /\ Status = 403
        /\ Body.key = "error"
        /\ Body.message \notin {"Client error: {str(e)}",
                                "An unexpected error occurred: {str(e)}",
                                "Access denied to the S3 bucket"}
        /\ \A e \in CredentialErrors :
                e # outcome.exc => ExceptResponse(e).body.message # Body.message

C6_Witness ==
    /\ Responded /\ Failed
    /\ outcome.exc.cls = "PartialCredentialsError"
    /\ path # <<>>
    /\ Status = 403

(* C7: every request ends in exactly one response, a JSON body with a      *)
(* "content" or an "error" key and a status among 200, 400, 403, 404, 500; *)
(* no exception leaves the view, the view is never stuck before it has     *)
(* responded, and an unclassified failure is answered 500 with its detail. *)
C7_AlwaysOneJsonResponse ==
    /\ pc # "propagated"
    /\ pc \in {"entered", "try", "called"} =>
            /\ responses = <<>>
            /\ ENABLED (Normalize \/ ListObjects \/ Return \/ Except)
    /\ pc = "done" =>
            /\ Len(responses) = 1
            /\ Body.key \in {"content", "error"}
            /\ Status \in {200, 400, 403, 404, 500}
            /\ Status = 200 <=> Body.key = "content"
    /\ (pc = "done" /\ Failed /\ outcome.exc \in OtherErrors) =>
            /\ Status = 500
            /\ Body.key = "error"
            /\ Body.args = <<outcome.exc.str>>

C7_Witness ==
    /\ Responded /\ Failed
    /\ outcome.exc.cls = "KeyError"
    /\ Status = 500

(* raw = separators + n + separators, and n neither begins nor ends with a separator *)
StripsOnlyOuterSeparators(raw, n) ==
    /\ \E i \in 0..Len(raw) :
            /\ i + Len(n) <= Len(raw)
            /\ IsSeps(SubSeq(raw, 1, i))
            /\ SubSeq(raw, i + 1, i + Len(n)) = n
            /\ IsSeps(SubSeq(raw, i + Len(n) + 1, Len(raw)))
    /\ n # <<>> => (n[1] # Sep /\ n[Len(n)] # Sep)

(* C8: normalisation removes all leading and trailing separators and       *)
(* nothing else, is idempotent, maps "/a/b/" to "a/b" and "" to "", and    *)
(* its result is the prefix passed to the store.                           *)
C8_NormalizeStripsOuterSeparators ==
    [][ /\ (pc = "entered" /\ pc' = "try") =>
                /\ StripsOnlyOuterSeparators(path, path')
                /\ Strip(path') = path'
        /\ (pc = "try" /\ pc' = "called") =>
                /\ StripsOnlyOuterSeparators(path, path)
                /\ calls' = <<[Bucket |-> BUCKET_NAME, Prefix |-> path]>>
        /\ (pc = "entered" /\ pc' = "try" /\ path = SlashABSlash) => path' = AB
        /\ (pc = "entered" /\ pc' = "try" /\ path = <<>>) => path' = <<>> ]_vars

C8_Witness ==
    /\ pc = "called"
    /\ path = AB
    /\ calls[1].Prefix = AB

(* C9: each request makes exactly one list call, on the fixed bucket,      *)
(* before it responds: none before the try block, one from the call on,    *)
(* whether the call failed or succeeded, and no response without it.       *)
C9_ExactlyOneStoreCall ==
    /\ Len(calls) <= 1
    /\ pc \in {"idle", "entered", "try"} => calls = <<>>
    /\ pc \in {"called", "done", "propagated"} =>
            /\ Len(calls) = 1
            /\ calls[1].Bucket = BUCKET_NAME
            /\ calls[1].Prefix = path
    /\ responses # <<>> => Len(calls) = 1

C9_Witness ==
    /\ Responded /\ Failed
    /\ outcome.exc.cls = "EndpointConnectionError"
    /\ Len(calls) = 1

(* C10: in a successful listing, a key that begins with the prefix and is  *)
(* longer than the prefix plus one separator yields a non-empty entry.     *)
C10_EntryNonEmpty ==
    (Responded /\ Listed /\ Status = 200) =>
        \A i \in 1..Len(Keys) :
            (BeginsWith(Keys[i], path) /\ Len(Keys[i]) > Len(path) + 1) =>
                Body.content[i] # <<>>

====
